---- MODULE Spec2Model ----
(***************************************************************************)
(* State-machine model of the ion-accordion component                      *)
(* (core/src/components/accordion/accordion.tsx): one accordion instance,  *)
(* the group it is nested in, the queue of animation frames it has         *)
(* requested and the transition waits it is awaiting.  What the host        *)
(* controls and the component only reads (the adjacent elements, the       *)
(* disabled and readonly props, the animation settings) is an input of     *)
(* the operation that reads it.                                            *)
(***************************************************************************)
EXTENDS Integers, Sequences, FiniteSets, TLC

(* ---- bounds ---------------------------------------------------------- *)

\* Most frame callbacks plus transition waits pending at once.
MaxPending == 2

(* ---- AccordionState (accordion.tsx 9-14) ----------------------------- *)

Collapsed == 1
Collapsing == 2
Expanded == 4
Expanding == 8

AccordionState == {Collapsed, Collapsing, Expanded, Expanding}

(* ---- values ---------------------------------------------------------- *)

Values == {"a", "b"}
Undefined == "undefined"

\* What el.previousElementSibling / el.nextElementSibling can be: nothing, an
\* element of another tag, or an ion-accordion (named by its value; one
\* value is enough to have it inside and outside the open-set).
NoSibling == "none"
NotAccordion == "other"
Siblings == {NoSibling, NotAccordion, "a"}

\* The group's value: a single value (possibly undefined) or an array.
Single(v) == [isArray |-> FALSE, val |-> v, items |-> {}]
Array(vs) == [isArray |-> TRUE, val |-> Undefined, items |-> vs]
GroupValues == {Single(Undefined), Single("a"), Array({"b"}), Array({"a", "b"})}

\* What shouldAnimate reads from its surroundings at a call.
AllOn ==
  [hasWindow |-> TRUE, prefersReducedMotion |-> FALSE, animated |-> TRUE,
   groupAnimated |-> TRUE]
AnimEnvs ==
  { AllOn,
    [AllOn EXCEPT !.hasWindow = FALSE],
    [AllOn EXCEPT !.prefersReducedMotion = TRUE],
    [AllOn EXCEPT !.animated = FALSE],
    [AllOn EXCEPT !.groupAnimated = FALSE] }

\* The element's place in the document: its two adjacent elements.
Elements == [prev : Siblings, next : Siblings]
Alone == [prev |-> NoSibling, next |-> NoSibling]

\* this.currentRaf: undefined, or the handle of some requested frame.
NoHandle == "undefined"
AHandle == "handle"

VARIABLES
  state,             \* @State() state
  isNext,            \* @State() isNext
  isPrevious,        \* @State() isPrevious
  value,             \* @Prop() value
  accordionGroupEl,  \* TRUE: holds a reference to the group; FALSE: null/undefined
  contentEl,         \* TRUE once render has set contentEl and contentElWrapper
  currentRaf,        \* NoHandle until a handle is assigned, then AHandle
  connected,         \* the element is attached to the document
  listening,         \* updateListener is registered on the group
  groupValue,        \* the group's value (the open-set)
  frames,            \* requested animation frames not yet run, oldest first
  waits,             \* pending transitionEndAsync waits, oldest first
  maxHeight,         \* contentEl.style has a max-height property
  last               \* the operation that produced this state

vars ==
  <<state, isNext, isPrevious, value, accordionGroupEl, contentEl, currentRaf,
    connected, listening, groupValue, frames, waits, maxHeight, last>>

(* ---- helpers --------------------------------------------------------- *)

\* Array.isArray(value) ? value.includes(v) : value === v
includes(gv, v) == IF gv.isArray THEN v \in gv.items ELSE gv.val = v

\* A requested frame is [kind, held]: kind names the callback, held says that
\* this.currentRaf holds the handle raf returned for it.  Handles are unique,
\* so at most one pending frame is held.

\* raf(cb): the callback joins the queue of requested frames.
raf(fs, kind, held) == Append(fs, [kind |-> kind, held |-> held])

\* this.currentRaf is assigned another handle: no earlier frame is held.
release(fs) == [i \in 1..Len(fs) |-> [fs[i] EXCEPT !.held = FALSE]]

\* cancelAnimationFrame(this.currentRaf): the held frame, if it is still
\* pending, leaves the queue.
cancelAnimationFrame(fs) == SelectSeq(fs, LAMBDA f : ~f.held)

\* shouldAnimate without the prefers-reduced-motion test.
shouldAnimate_IgnoresReducedMotion(env, group) ==
  IF ~env.hasWindow THEN FALSE
  ELSE IF ~env.animated THEN FALSE
  ELSE IF group /\ ~env.groupAnimated THEN FALSE
  ELSE TRUE

\* shouldAnimate without the test of the group's animated prop.
shouldAnimate_IgnoresGroup(env, group) ==
  IF ~env.hasWindow THEN FALSE
  ELSE IF env.prefersReducedMotion THEN FALSE
  ELSE IF ~env.animated THEN FALSE
  ELSE TRUE

shouldAnimate(env, group) ==
  IF ~env.hasWindow THEN FALSE
  ELSE IF env.prefersReducedMotion THEN FALSE
  ELSE IF ~env.animated THEN FALSE
  ELSE IF group /\ ~env.groupAnimated THEN FALSE
  ELSE TRUE

Unchanged3 == [state |-> state, frames |-> frames, currentRaf |-> currentRaf]

\* The initial update is animated like any other.
expandsAtOnce_IgnoresInitial(initialUpdate) == ~contentEl

\* expandAccordion sets Expanded at once: the initial update, or no content
\* element yet.
expandsAtOnce(initialUpdate) == initialUpdate \/ ~contentEl

\* The test for the state already being Expanded is missing.
alreadyExpanded_Never == FALSE

alreadyExpanded == state = Expanded

\* Expanding is set by the command itself, not by its first frame.
expandAccordion_ExpandingAtOnce(initialUpdate, env, group) ==
  IF expandsAtOnce(initialUpdate) THEN [Unchanged3 EXCEPT !.state = Expanded]
  ELSE IF alreadyExpanded THEN Unchanged3
  ELSE LET kept == IF currentRaf # NoHandle
                   THEN cancelAnimationFrame(frames)
                   ELSE frames
       IN IF shouldAnimate(env, group)
          THEN [Unchanged3 EXCEPT !.state = Expanding,
                                  !.frames = raf(kept, "expandOuter", FALSE)]
          ELSE [Unchanged3 EXCEPT !.state = Expanded, !.frames = kept]

expandAccordion(initialUpdate, env, group) ==
  IF expandsAtOnce(initialUpdate) THEN [Unchanged3 EXCEPT !.state = Expanded]
  ELSE IF alreadyExpanded THEN Unchanged3
  ELSE LET kept == IF currentRaf # NoHandle
                   THEN cancelAnimationFrame(frames)
                   ELSE frames
       IN IF shouldAnimate(env, group)
          THEN [Unchanged3 EXCEPT !.frames = raf(kept, "expandOuter", FALSE)]
          ELSE [Unchanged3 EXCEPT !.state = Expanded, !.frames = kept]

\* collapseAccordion sets Collapsed at once.
collapsesAtOnce(initialUpdate) == initialUpdate \/ ~contentEl

alreadyCollapsed == state = Collapsed

collapseAccordion(initialUpdate, env, group) ==
  IF collapsesAtOnce(initialUpdate) THEN [Unchanged3 EXCEPT !.state = Collapsed]
  ELSE IF alreadyCollapsed THEN Unchanged3
  ELSE LET kept == IF currentRaf # NoHandle
                   THEN cancelAnimationFrame(frames)
                   ELSE frames
       IN IF shouldAnimate(env, group)
          THEN [state |-> state,
                frames |-> raf(release(kept), "collapseOuter", TRUE),
                currentRaf |-> AHandle]
          ELSE [Unchanged3 EXCEPT !.state = Collapsed, !.frames = kept]

getNextSibling(el) == IF el.next \in Values THEN el.next ELSE Undefined

getPreviousSibling(el) == IF el.prev \in Values THEN el.prev ELSE Undefined

\* The flags are not reset on the expand path.
flagsWhenOpen_Kept == [isNext |-> isNext, isPrevious |-> isPrevious]

\* this.isNext = this.isPrevious = false
flagsWhenOpen == [isNext |-> FALSE, isPrevious |-> FALSE]

\* The test for a missing group is left out: the open-set is read anyway.
updateState_WithoutGroupTest(initialUpdate, env, el) ==
  IF includes(groupValue', value')
  THEN LET r == expandAccordion(initialUpdate, env, accordionGroupEl')
       IN /\ state' = r.state
          /\ frames' = r.frames
          /\ currentRaf' = r.currentRaf
          /\ isNext' = FALSE
          /\ isPrevious' = FALSE
  ELSE LET r == collapseAccordion(initialUpdate, env, accordionGroupEl')
       IN /\ state' = r.state
          /\ frames' = r.frames
          /\ currentRaf' = r.currentRaf
          /\ UNCHANGED <<isNext, isPrevious>>

\* updateState(initialUpdate), reading this.accordionGroupEl, this.value and
\* the group's value as they are when it is called.
updateState(initialUpdate, env, el) ==
  IF ~accordionGroupEl'
  THEN UNCHANGED <<state, frames, currentRaf, isNext, isPrevious>>
  ELSE IF includes(groupValue', value')
  THEN LET r == expandAccordion(initialUpdate, env, accordionGroupEl')
       IN /\ state' = r.state
          /\ frames' = r.frames
          /\ currentRaf' = r.currentRaf
          /\ isNext' = flagsWhenOpen.isNext
          /\ isPrevious' = flagsWhenOpen.isPrevious
  ELSE LET r == collapseAccordion(initialUpdate, env, accordionGroupEl')
           nextAccordionValue == getNextSibling(el)
           previousAccordionValue == getPreviousSibling(el)
       IN /\ state' = r.state
          /\ frames' = r.frames
          /\ currentRaf' = r.currentRaf
          /\ isPrevious' = IF nextAccordionValue # Undefined
                           THEN includes(groupValue', nextAccordionValue)
                           ELSE isPrevious
          /\ isNext' = IF previousAccordionValue # Undefined
                       THEN includes(groupValue', previousAccordionValue)
                       ELSE isNext

(* ---- what an operation did ------------------------------------------- *)

\* The command updateState issues.
Command ==
  IF ~accordionGroupEl' THEN "none"
  ELSE IF includes(groupValue', value') THEN "expand" ELSE "collapse"

\* Animation is switched off by what a call of shouldAnimate reads.
AnimationOff(env) ==
  \/ ~env.hasWindow
  \/ env.prefersReducedMotion
  \/ ~env.animated
  \/ ~env.groupAnimated

\* The adjacent element is an accordion whose value is in the open-set.
IsOpenAccordion(sibling, gv) ==
  /\ sibling \in Values
  /\ IF gv.isArray THEN sibling \in gv.items ELSE sibling = gv.val

Other(op) ==
  [op |-> op, cmd |-> "none", animationOff |-> FALSE, prevOpen |-> FALSE,
   nextOpen |-> FALSE, disabled |-> FALSE, readonly |-> FALSE,
   requests |-> <<>>]

Did(op, env, el) ==
  [Other(op) EXCEPT !.cmd = Command,
                    !.animationOff = AnimationOff(env),
                    !.prevOpen = IsOpenAccordion(el.prev, groupValue'),
                    !.nextOpen = IsOpenAccordion(el.next, groupValue')]

\* The animation settings are read by a command that gets as far as calling
\* shouldAnimate; the adjacent elements are read by the collapse path of
\* updateState.
EnvsRead ==
  IF \/ Command = "expand" /\ ~expandsAtOnce(FALSE) /\ ~alreadyExpanded
     \/ Command = "collapse" /\ ~collapsesAtOnce(FALSE) /\ ~alreadyCollapsed
  THEN AnimEnvs ELSE {AllOn}

ElementsRead == IF Command = "collapse" THEN Elements ELSE {Alone}

WithinBounds == Len(frames') + Len(waits) <= MaxPending

(* ---- operations ------------------------------------------------------ *)

Init ==
  /\ state = Collapsed
  /\ isNext = FALSE
  /\ isPrevious = FALSE
  /\ value \in Values
  /\ accordionGroupEl = FALSE
  /\ contentEl = FALSE
  /\ currentRaf = NoHandle
  /\ connected = FALSE
  /\ listening = FALSE
  /\ groupValue \in GroupValues
  /\ frames = <<>>
  /\ waits = <<>>
  /\ maxHeight = FALSE
  /\ last = Other("new")

connectedCallback ==
  /\ ~connected
  /\ connected' = TRUE
  /\ UNCHANGED <<value, groupValue>>
  /\ \E found \in BOOLEAN :
       /\ accordionGroupEl' = found
       /\ IF found
          THEN /\ \E el \in ElementsRead :
                    /\ updateState(TRUE, AllOn, el)
                    /\ last' = Did("connectedCallback", AllOn, el)
               /\ listening' = TRUE
          ELSE /\ UNCHANGED <<state, frames, currentRaf, isNext, isPrevious,
                              listening>>
               /\ last' = Other("connectedCallback")
  /\ WithinBounds
  /\ UNCHANGED <<contentEl, waits, maxHeight>>

\* The listener is not removed at detach.
disconnectedCallback_KeepsListener ==
  /\ connected
  /\ connected' = FALSE
  /\ last' = Other("disconnectedCallback")
  /\ UNCHANGED <<state, isNext, isPrevious, value, accordionGroupEl,
                 contentEl, currentRaf, listening, groupValue, frames, waits,
                 maxHeight>>

disconnectedCallback ==
  /\ connected
  /\ connected' = FALSE
  /\ listening' = IF accordionGroupEl THEN FALSE ELSE listening
  /\ last' = Other("disconnectedCallback")
  /\ UNCHANGED <<state, isNext, isPrevious, value, accordionGroupEl,
                 contentEl, currentRaf, groupValue, frames, waits, maxHeight>>

\* The first render sets the contentEl and contentElWrapper refs.
render ==
  /\ connected
  /\ ~contentEl
  /\ contentEl' = TRUE
  /\ last' = Other("render")
  /\ UNCHANGED <<state, isNext, isPrevious, value, accordionGroupEl,
                 currentRaf, connected, listening, groupValue, frames, waits,
                 maxHeight>>

\* The group's value changes and ionValueChange is dispatched: updateListener
\* runs if it is registered.
ionValueChange ==
  \E gv \in GroupValues :
    /\ groupValue' = gv
    /\ UNCHANGED <<value, accordionGroupEl>>
    /\ IF listening
       THEN \E env \in EnvsRead, el \in ElementsRead :
              /\ updateState(FALSE, env, el)
              /\ last' = Did("ionValueChange", env, el)
       ELSE /\ UNCHANGED <<state, frames, currentRaf, isNext, isPrevious>>
            /\ last' = Other("ionValueChange")
    /\ WithinBounds
    /\ UNCHANGED <<contentEl, connected, listening, waits, maxHeight>>

valueChanged ==
  \E v \in Values \ {value} :
    /\ value' = v
    /\ UNCHANGED <<groupValue, accordionGroupEl>>
    /\ \E env \in EnvsRead, el \in ElementsRead :
         /\ updateState(FALSE, env, el)
         /\ last' = Did("valueChanged", env, el)
    /\ WithinBounds
    /\ UNCHANGED <<contentEl, connected, listening, waits, maxHeight>>

\* Only disabled is tested.
interactive_IgnoresReadonly(d, r) == ~d

\* if (disabled || readonly) return;
interactive(d, r) == ~(d \/ r)

\* The click toggles the state itself besides asking the group.
toggleExpanded_SelfToggles ==
  \E d \in BOOLEAN, r \in BOOLEAN :
    /\ contentEl
    /\ last' = [Other("toggleExpanded") EXCEPT
         !.disabled = d,
         !.readonly = r,
         !.requests =
           IF ~interactive(d, r) THEN <<>>
           ELSE IF accordionGroupEl
           THEN << [value |-> value,
                    expand |-> (state = Collapsed \/ state = Collapsing)] >>
           ELSE <<>>]
    /\ state' = IF ~interactive(d, r) THEN state
                ELSE IF state = Collapsed \/ state = Collapsing THEN Expanded
                ELSE Collapsed
    /\ UNCHANGED <<isNext, isPrevious, value, accordionGroupEl,
                   contentEl, currentRaf, connected, listening, groupValue,
                   frames, waits, maxHeight>>

\* The direction is computed from Collapsed alone.
toggleExpanded_CollapsingAsksCollapse ==
  \E d \in BOOLEAN, r \in BOOLEAN :
    /\ contentEl
    /\ last' = [Other("toggleExpanded") EXCEPT
         !.disabled = d,
         !.readonly = r,
         !.requests =
           IF ~interactive(d, r) THEN <<>>
           ELSE IF accordionGroupEl
           THEN << [value |-> value, expand |-> (state = Collapsed)] >>
           ELSE <<>>]
    /\ UNCHANGED <<state, isNext, isPrevious, value, accordionGroupEl,
                   contentEl, currentRaf, connected, listening, groupValue,
                   frames, waits, maxHeight>>

\* A click on the header, with the disabled and readonly props as they are.
\* The calls of accordionGroupEl.requestAccordionToggle are recorded.
toggleExpanded ==
  \E d \in BOOLEAN, r \in BOOLEAN :
    /\ contentEl
    /\ last' = [Other("toggleExpanded") EXCEPT
         !.disabled = d,
         !.readonly = r,
         !.requests =
           IF ~interactive(d, r) THEN <<>>
           ELSE IF accordionGroupEl
           THEN << [value |-> value,
                    expand |-> (state = Collapsed \/ state = Collapsing)] >>
           ELSE <<>>]
    /\ UNCHANGED <<state, isNext, isPrevious, value, accordionGroupEl,
                   contentEl, currentRaf, connected, listening, groupValue,
                   frames, waits, maxHeight>>

\* The oldest requested frame runs.
runFrame ==
  /\ frames # <<>>
  /\ LET f == Head(frames)
         rest == Tail(frames)
     IN CASE f.kind = "expandOuter" ->
               /\ state' = Expanding
               /\ frames' = raf(release(rest), "expandInner", TRUE)
               /\ currentRaf' = AHandle
               /\ UNCHANGED <<waits, maxHeight>>
          [] f.kind = "expandInner" ->
               /\ waits' = Append(waits, "expand")
               /\ maxHeight' = TRUE
               /\ frames' = rest
               /\ UNCHANGED <<state, currentRaf>>
          [] f.kind = "collapseOuter" ->
               /\ maxHeight' = TRUE
               /\ frames' = raf(rest, "collapseInner", FALSE)
               /\ UNCHANGED <<state, currentRaf, waits>>
          [] f.kind = "collapseInner" ->
               /\ waits' = Append(waits, "collapse")
               /\ state' = Collapsing
               /\ frames' = rest
               /\ UNCHANGED <<currentRaf, maxHeight>>
  /\ last' = Other("runFrame")
  /\ UNCHANGED <<isNext, isPrevious, value, accordionGroupEl, contentEl,
                 connected, listening, groupValue>>

\* The end of the wait leaves the transient state in place.
resolved_Stuck(kind) == IF kind = "expand" THEN Expanding ELSE Collapsing

\* The state an animation sequence sets once its wait is over.
resolved(kind) == IF kind = "expand" THEN Expanded ELSE Collapsed

\* transitionend fires on contentEl: every pending wait ends, oldest first.
transitionEnd ==
  /\ waits # <<>>
  /\ state' = resolved(waits[Len(waits)])
  /\ maxHeight' = FALSE
  /\ waits' = <<>>
  /\ last' = Other("transitionEnd")
  /\ UNCHANGED <<isNext, isPrevious, value, accordionGroupEl, contentEl,
                 currentRaf, connected, listening, groupValue, frames>>

\* The continuation after the wait does not remove max-height.
transitionTimeout_KeepsMaxHeight ==
  /\ waits # <<>>
  /\ state' = resolved(Head(waits))
  /\ waits' = Tail(waits)
  /\ last' = Other("transitionTimeout")
  /\ UNCHANGED <<isNext, isPrevious, value, accordionGroupEl, contentEl,
                 currentRaf, connected, listening, groupValue, frames,
                 maxHeight>>

\* The timeout of the oldest pending wait expires.
transitionTimeout ==
  /\ waits # <<>>
  /\ state' = resolved(Head(waits))
  /\ maxHeight' = FALSE
  /\ waits' = Tail(waits)
  /\ last' = Other("transitionTimeout")
  /\ UNCHANGED <<isNext, isPrevious, value, accordionGroupEl, contentEl,
                 currentRaf, connected, listening, groupValue, frames>>

\* render: const expanded = state is Expanded or Expanding.
expanded == state = Expanded \/ state = Expanding

Next ==
  \/ connectedCallback
  \/ disconnectedCallback
  \/ render
  \/ ionValueChange
  \/ valueChanged
  \/ toggleExpanded
  \/ runFrame
  \/ transitionEnd
  \/ transitionTimeout

Spec == Init /\ [][Next]_vars

\* The browser runs every requested frame that is not cancelled, and the
\* timeout of a transition wait expires if the wait has not ended before.
LiveSpec ==
  /\ Init
  /\ [][Next]_vars
  /\ WF_vars(runFrame)
  /\ WF_vars(transitionTimeout)

(* ---- properties ------------------------------------------------------ *)

Resting == {Collapsed, Expanded}
Transient == {Collapsing, Expanding}

\* The state that matches the membership of the value in the open-set.
Target(gv, v) ==
  IF (IF gv.isArray THEN v \in gv.items ELSE v = gv.val)
  THEN Expanded ELSE Collapsed

\* The operations that run updateState without "initial update" semantics.
Updates == {"ionValueChange", "valueChanged"}

\* Every element of the sequence t is an element of the sequence s.
NothingNew(s, t) ==
  /\ Len(t) <= Len(s)
  /\ \A i \in 1..Len(t) : \E j \in 1..Len(s) : t[i] = s[j]

\* C1: while the instance listens to its group, once no frame and no
\* transition wait is pending its state is Expanded if its value is in the
\* group's current open-set and Collapsed otherwise.
C1_SettledStateMatchesOpenSet ==
  (listening /\ frames = <<>> /\ waits = <<>>)
    => state = Target(groupValue, value)

\* C2: after a collapse command, no frame of an earlier expand command is
\* still pending: the command cancelled it.
C2_CollapseCancelsExpandFrames ==
  (last.op \in Updates /\ last.cmd = "collapse")
    => \A i \in 1..Len(frames) :
         frames[i].kind \notin {"expandOuter", "expandInner"}

\* C3: a connectedCallback that finds a group leaves the state Expanded if the
\* value is in the open-set and Collapsed otherwise, and requests no frame and
\* starts no wait.
C3_InitialUpdateIsImmediate ==
  [][(last'.op = "connectedCallback" /\ accordionGroupEl')
       => /\ state' = Target(groupValue', value')
          /\ frames' = frames
          /\ waits' = waits]_vars

C3_Witness ==
  /\ last.op = "connectedCallback"
  /\ accordionGroupEl
  /\ contentEl
  /\ state = Expanded
  /\ frames # <<>>

\* C4: a command issued while animation is switched off leaves the state at
\* the command's target, requests no frame and starts no wait.  A command
\* either reads the animation settings, or returns before reading them (no
\* content element yet, or the state is at the target already), and then
\* does the same whatever the settings are.
C4_NoAnimationIsImmediate ==
  [][(/\ last'.op \in Updates
      /\ last'.cmd # "none"
      /\ \/ last'.animationOff
         \/ ~contentEl
         \/ state = (IF last'.cmd = "expand" THEN Expanded ELSE Collapsed))
       => /\ state' = (IF last'.cmd = "expand" THEN Expanded ELSE Collapsed)
          /\ NothingNew(frames, frames')
          /\ waits' = waits]_vars

C4_Witness ==
  /\ last.op \in Updates
  /\ last.cmd = "collapse"
  /\ last.animationOff
  /\ contentEl
  /\ state = Collapsed
  /\ maxHeight

\* C5: a non-initial expand command in state Expanded, and a non-initial
\* collapse command in state Collapsed, changes neither the state nor the
\* requested frames nor the recorded handle.
C5_CommandAtTargetIsNoOp ==
  [][(/\ last'.op \in Updates
      /\ \/ last'.cmd = "expand" /\ state = Expanded
         \/ last'.cmd = "collapse" /\ state = Collapsed)
       => /\ state' = state
          /\ frames' = frames
          /\ currentRaf' = currentRaf]_vars

C5_Witness ==
  /\ last.op \in Updates
  /\ last.cmd = "expand"
  /\ ~last.animationOff
  /\ state = Expanded
  /\ \E i \in 1..Len(frames) : frames[i].held

\* A step in which updateState issues an expand or collapse command.
CommandStep ==
  /\ last'.op \in Updates \cup {"connectedCallback"}
  /\ last'.cmd # "none"

\* C6 as stated: whenever the state is Expanding or Collapsing it later is
\* Collapsed or Expanded, whatever commands arrive.
C6_TransientAlwaysResolves ==
  (state \in Transient) ~> (state \in Resting)

\* C6 amended: whenever the state is Expanding or Collapsing it later is
\* Collapsed or Expanded, provided that from some point on no further expand
\* or collapse command is issued.
C6_TransientResolvesOnceCommandsStop ==
  (<>[][~CommandStep]_vars) => ((state \in Transient) ~> (state \in Resting))

C6_Witness ==
  /\ last.op = "transitionTimeout"
  /\ state = Expanded
  /\ ~maxHeight
  /\ frames = <<>>
  /\ waits = <<>>

\* C7: after a run of updateState with the value outside the open-set, isNext
\* says that the previous element is an accordion whose value is in the
\* open-set, and isPrevious says the same of the next element.
C7_FlagsFollowSiblings ==
  (last.op \in Updates \cup {"connectedCallback"} /\ last.cmd = "collapse")
    => /\ isNext = last.prevOpen
       /\ isPrevious = last.nextOpen

\* C8: a run of updateState with the value in the open-set leaves isNext and
\* isPrevious false, and only a run of updateState changes them.
C8_FlagsResetWhenOpen ==
  [][/\ (last'.op \in Updates \cup {"connectedCallback"} /\ last'.cmd = "expand")
          => (~isNext' /\ ~isPrevious')
     /\ (isNext' # isNext \/ isPrevious' # isPrevious)
          => (last'.op \in Updates \cup {"connectedCallback"} /\ last'.cmd # "none")]_vars

C8_Witness ==
  /\ last.op = "ionValueChange"
  /\ last.cmd = "expand"
  /\ contentEl
  /\ state = Collapsed
  /\ ~isNext
  /\ ~isPrevious

\* C9: a click with disabled or readonly set submits no toggle request.
C9_NoRequestWhenDisabledOrReadonly ==
  (last.op = "toggleExpanded" /\ (last.disabled \/ last.readonly))
    => last.requests = <<>>

C9_Witness ==
  /\ last.op = "toggleExpanded"
  /\ last.disabled
  /\ ~last.readonly
  /\ accordionGroupEl
  /\ state = Collapsed

\* C10: a click changes neither the group's value nor the state, the flags or
\* the requested frames, and submits at most one toggle request; the state
\* changes only in a run of updateState, a frame or the end of a wait.
C10_OnlyUpdatesChangeState ==
  [][/\ last'.op = "toggleExpanded"
          => /\ UNCHANGED <<groupValue, state, isNext, isPrevious, frames>>
             /\ Len(last'.requests) <= 1
     /\ state' # state
          => last'.op \in Updates \cup {"connectedCallback", "runFrame",
                                        "transitionEnd", "transitionTimeout"}
     /\ groupValue' # groupValue => last'.op = "ionValueChange"]_vars

C10_Witness ==
  /\ last.op = "toggleExpanded"
  /\ Len(last.requests) = 1
  /\ state = Expanding
  /\ frames # <<>>

\* The instance as constructed: Collapsed, both flags false, nothing pending.
AsConstructed ==
  /\ state = Collapsed
  /\ ~isNext
  /\ ~isPrevious
  /\ frames = <<>>
  /\ waits = <<>>

\* C11: an instance that holds no group stays as constructed through every
\* operation that leaves it without a group (attach outside a group, value
\* changes, clicks, notifications of a group elsewhere): state Collapsed, both
\* flags false, no frame requested, no wait started, no toggle request
\* submitted.
C11_NoGroupStaysCollapsed ==
  [][(~accordionGroupEl /\ ~accordionGroupEl' /\ AsConstructed)
       => (AsConstructed' /\ last'.requests = <<>>)]_vars

C11_Witness ==
  /\ last.op = "valueChanged"
  /\ connected
  /\ ~accordionGroupEl
  /\ contentEl
  /\ includes(groupValue, value)
  /\ AsConstructed

\* C12: the instance listens to the group exactly while it is attached inside
\* a group, and a notification of the group that arrives while the instance
\* is detached changes neither the state nor the flags nor the requested
\* frames.
C12_DetachedIgnoresNotifications ==
  [][/\ listening' <=> (connected' /\ accordionGroupEl')
     /\ (last'.op = "ionValueChange" /\ ~connected)
          => UNCHANGED <<state, isNext, isPrevious, frames, currentRaf>>]_vars

C12_Witness ==
  /\ last.op = "ionValueChange"
  /\ ~connected
  /\ accordionGroupEl
  /\ contentEl
  /\ state = Collapsed
  /\ includes(groupValue, value)

\* The frame kinds of the animation sequence of the opposite direction.
OppositeFrames(kind) ==
  IF kind = "expand" THEN {"collapseOuter", "collapseInner"}
  ELSE {"expandOuter", "expandInner"}

\* A pending wait is stale once a command of the opposite direction has been
\* issued after the command that started it.  A frame of the opposite
\* direction that is still pending shows it: frames run in the order they
\* were requested, so that frame comes from a command issued later than the
\* one whose frames started the wait.
Stale(kind) == \E i \in 1..Len(frames) : frames[i].kind \in OppositeFrames(kind)

\* The waits the step ends: all of them on transitionend, the oldest on a
\* timeout.
Ended ==
  IF last'.op = "transitionEnd" THEN waits
  ELSE IF last'.op = "transitionTimeout" THEN <<Head(waits)>>
  ELSE <<>>

\* C13: the end of a wait (by transitionend or by timeout) that has become
\* stale changes neither the state nor the max-height override.
C13_StaleWaitHasNoEffect ==
  [][(/\ Ended # <<>>
      /\ \A i \in 1..Len(Ended) : Stale(Ended[i]))
       => /\ state' = state
          /\ maxHeight' = maxHeight]_vars

\* A step that changes the open-set, the value or the attachment.
ChangeStep ==
  last'.op \in {"ionValueChange", "valueChanged", "connectedCallback",
                "disconnectedCallback"}

\* A notification of the group has just run updateState.
Notified == last.op = "ionValueChange" /\ last.cmd # "none"

\* C14: once a notification has run updateState, and provided the open-set,
\* the value and the attachment stop changing from some point on, the state
\* eventually is, and stays, the resting state that matches the membership
\* of the value in the open-set.
C14_NotificationCorrectsState ==
  (<>[][~ChangeStep]_vars)
    => [](Notified => <>[](state = Target(groupValue, value)))

\* C15: whenever the state is Collapsing, the content element has its explicit
\* max-height.
C15_CollapsingHasMaxHeight == (state = Collapsing) => maxHeight

\* The stages of an expand sequence that runs alone.
ExpandRequested ==
  /\ state = Collapsed
  /\ frames = <<[kind |-> "expandOuter", held |-> FALSE]>>
  /\ waits = <<>>

ExpandStarted ==
  /\ state = Expanding
  /\ frames = <<[kind |-> "expandInner", held |-> TRUE]>>
  /\ waits = <<>>

ExpandWaiting ==
  /\ state = Expanding
  /\ frames = <<>>
  /\ waits = <<"expand">>
  /\ maxHeight

ExpandDone ==
  /\ state = Expanded
  /\ frames = <<>>
  /\ waits = <<>>
  /\ ~maxHeight

\* An expand command that animates, issued with state Collapsed and nothing
\* pending.
AnimatedExpandAtRest ==
  /\ last'.op \in Updates
  /\ last'.cmd = "expand"
  /\ ~last'.animationOff
  /\ contentEl
  /\ state = Collapsed
  /\ frames = <<>>
  /\ waits = <<>>

\* C16: an animated expand command issued at rest in Collapsed leaves the
\* state Collapsed with one frame requested; as long as no other command is
\* issued, that frame sets Expanding without touching max-height, the next
\* frame sets max-height and starts the wait, and only the end of the wait
\* sets Expanded, with max-height removed.
C16_ExpandSequence ==
  [][/\ AnimatedExpandAtRest => ExpandRequested'
     /\ ~CommandStep =>
          /\ ExpandRequested =>
               \/ ExpandRequested'
               \/ ExpandStarted' /\ maxHeight' = maxHeight
          /\ ExpandStarted => (ExpandStarted' \/ ExpandWaiting')
          /\ ExpandWaiting =>
               \/ ExpandWaiting'
               \/ /\ ExpandDone'
                  /\ last'.op \in {"transitionEnd", "transitionTimeout"}]_vars

C16_Witness ==
  /\ last.op = "transitionEnd"
  /\ listening
  /\ includes(groupValue, value)
  /\ ExpandDone

\* C17: a click with disabled and readonly false on an instance that holds a
\* group submits exactly one toggle request: its value is the instance's
\* value, and it asks to expand exactly when the state at the click is
\* Collapsed or Collapsing, the opposite of the expanded flag of render.
C17_ToggleRequestsOpposite ==
  [][(/\ last'.op = "toggleExpanded"
      /\ ~last'.disabled
      /\ ~last'.readonly
      /\ accordionGroupEl)
       => /\ last'.requests = << [value |-> value, expand |-> ~expanded] >>
          /\ ~expanded <=> state \in {Collapsed, Collapsing}]_vars

C17_Witness ==
  /\ last.op = "toggleExpanded"
  /\ connected
  /\ state = Collapsing
  /\ last.requests = << [value |-> value, expand |-> TRUE] >>

\* C18: while the instance is detached, a value change issues no command
\* (it does not read the open-set and changes neither the state nor the
\* requested frames), and a click submits no toggle request.
C18_DetachedUsesNoGroup ==
  [][(~connected /\ last'.op \in {"valueChanged", "toggleExpanded"})
       => /\ last'.cmd = "none"
          /\ last'.requests = <<>>
          /\ state' = state
          /\ frames' = frames]_vars

\* Collapsed or Expanded with no frame requested and no wait pending.
QuietResting ==
  /\ state \in Resting
  /\ frames = <<>>
  /\ waits = <<>>

\* A command calls shouldAnimate with every switch on.
AnimatedCall ==
  /\ last'.op \in Updates
  /\ last'.cmd # "none"
  /\ ~last'.animationOff
  /\ contentEl
  /\ state # (IF last'.cmd = "expand" THEN Expanded ELSE Collapsed)

\* C19: in a run in which animation is switched off at every call of
\* shouldAnimate, the state always is Collapsed or Expanded and no frame is
\* ever requested.  Stated as the induction step (the constructed instance
\* is Collapsed with nothing pending): a step that is not a command
\* animating leads from such a state to such a state.
C19_NoAnimationNeverTransient ==
  [][(QuietResting /\ ~AnimatedCall) => QuietResting']_vars

C19_Witness ==
  /\ last.op \in Updates
  /\ last.cmd = "expand"
  /\ last.animationOff
  /\ contentEl
  /\ currentRaf = NoHandle
  /\ ~maxHeight
  /\ state = Expanded
  /\ frames = <<>>
  /\ waits = <<>>

\* C20: whenever no frame is requested and no wait is pending, the content
\* element has no explicit max-height and the state is Collapsed or Expanded.
C20_QuiescentIsClean ==
  (frames = <<>> /\ waits = <<>>) => (~maxHeight /\ state \in Resting)

C20_Witness ==
  /\ last.op = "transitionTimeout"
  /\ listening
  /\ includes(groupValue, value)
  /\ state = Collapsed
  /\ ~maxHeight
  /\ frames = <<>>
  /\ waits = <<>>

====
